---- MODULE Spec2Model ----
(***************************************************************************)
(* The product service of my_online_store: the function-based handlers of  *)
(* product/views.py and the class-based ProductView of product/api_views.py *)
(* over the Product table, with the serializers of product/serializers.py.  *)
(***************************************************************************)
EXTENDS Integers, FiniteSets, TLC

VARIABLES
  products,   \* the Product table: id -> row
  nextId,     \* the next value of the id sequence
  deleted,    \* history: the ids of the rows deleted so far
  last,       \* the request being answered and its response, Idle between
  inflight,   \* concurrent requests: worker -> request, position, loaded row
  start       \* the table when the concurrent requests arrived

vars == <<products, nextId, deleted, last, inflight, start>>

(* ------------------------------ bounds --------------------------------- *)

\* The number of rows the id sequence hands out before creation stops.
MaxId == 2

(* --------------------------- program constants ------------------------- *)

HTTP_200_OK == 200
HTTP_201_CREATED == 201
HTTP_204_NO_CONTENT == 204
HTTP_400_BAD_REQUEST == 400
HTTP_404_NOT_FOUND == 404

(* ------------------------------ values --------------------------------- *)

Slugs == {"a", "b"}
Titles == {"t1", "t2"}
Prices == {1, 2}
Descriptions == {"d1"}
\* An id a client may put into a request body; never one the sequence issues.
BodyIds == {9}
Ids == 1..MaxId

Empty == [z \in {} |-> z]

\* The body of a request: any subset of the fields, each with a value.
Part(f, V) == {Empty} \cup {f :> v : v \in V}
Data ==
  {a @@ b @@ c @@ d @@ e :
     a \in Part("id", BodyIds), b \in Part("slug", Slugs),
     c \in Part("title", Titles), d \in Part("price", Prices),
     e \in Part("description", Descriptions)}

(* --------------------------- the Product model ------------------------- *)

\* Product's columns besides the generated id, with the value a row gets for
\* a column that is not given when the row is created.
ProductDefaults ==
  [slug |-> "", title |-> "", description |-> "", price |-> 0, categories |-> {}]

ProductColumns == DOMAIN ProductDefaults

\* Columns that must be unique across rows.
UniqueColumns == {"slug"}

\* Columns a serializer never writes even when it lists them: the generated
\* primary key.
AutoColumns == {"id"}

\* Columns a write must carry a value for (no blank, no default).
RequiredColumns == {"slug", "title", "description", "price"}

(* ------------------------------ serializers ---------------------------- *)

ProductListSerializer ==
  [fields |-> {"id", "slug", "title", "description", "price"}, read_only |-> {}]

ProductDetailSerializer ==
  [fields |-> {"id"} \cup ProductColumns, read_only |-> {"categories"}]

ProductCreateSerializer ==
  [fields |-> {"id", "slug", "title", "price"}, read_only |-> {}]

Writable(ser) == ser.fields \ (ser.read_only \cup AutoColumns)

\* serializer.data of a stored row.
to_representation(ser, pk, obj) ==
  [f \in ser.fields |-> IF f = "id" THEN pk ELSE obj[f]]

\* serializer.errors: field -> message, empty when is_valid() is true.
\* instance is the pk of the row being updated, 0 when creating.
errors(ser, store, instance, data, partial) ==
  LET missing == {f \in Writable(ser) \cap RequiredColumns :
                    f \notin DOMAIN data /\ ~partial}
      taken == {f \in Writable(ser) \cap UniqueColumns \cap DOMAIN data :
                  \E i \in DOMAIN store \ {instance} : store[i][f] = data[f]}
  IN [f \in missing \cup taken |-> IF f \in missing THEN "required" ELSE "unique"]

validated_data(ser, data) ==
  [f \in Writable(ser) \cap DOMAIN data |-> data[f]]

\* ModelSerializer.create: a new row from the validated fields.
create(vd) ==
  [f \in ProductColumns |-> IF f \in DOMAIN vd THEN vd[f] ELSE ProductDefaults[f]]

\* ModelSerializer.update: setattr for each validated field.
update(obj, vd) ==
  [f \in DOMAIN obj |-> IF f \in DOMAIN vd THEN vd[f] ELSE obj[f]]

\* Model.save(): every column of the row with this pk is written from the
\* instance (UPDATE, or INSERT when no such row is stored). The many-to-many
\* links are not columns of the row: they stay as stored, and a row that is
\* inserted has none.
save(store, pk, obj) ==
  LET links == IF pk \in DOMAIN store THEN store[pk].categories ELSE {}
  IN [i \in DOMAIN store \cup {pk} |->
        IF i = pk THEN [obj EXCEPT !.categories = links] ELSE store[i]]

\* Model.delete()
delete(store, pk) == [i \in DOMAIN store \ {pk} |-> store[i]]

(* ------------------------------ responses ------------------------------ *)

Response(store, nid, status, body) ==
  [products |-> store, nextId |-> nid, status |-> status, body |-> body]

NotFound(store, nid) ==
  Response(store, nid, HTTP_404_NOT_FOUND, [detail |-> "Not found."])

(* -------------------- product/views.py: the functions ------------------ *)

product_list(store, nid) ==
  Response(store, nid, HTTP_200_OK,
           [items |-> {to_representation(ProductListSerializer, i, store[i]) :
                         i \in DOMAIN store}])

product_detail(store, nid, pk) ==
  IF pk \notin DOMAIN store THEN NotFound(store, nid)
  ELSE Response(store, nid, HTTP_200_OK,
                to_representation(ProductDetailSerializer, pk, store[pk]))

\* product_create with the new id taken from the number of stored rows.
product_create_CountIds(store, nid, data) ==
  LET ser == ProductCreateSerializer
      errs == errors(ser, store, 0, data, FALSE)
      obj == create(validated_data(ser, data))
      id == Cardinality(DOMAIN store) + 1
  IN IF errs = Empty
     THEN Response(save(store, id, obj), nid + 1, HTTP_201_CREATED,
                   to_representation(ser, id, obj))
     ELSE Response(store, nid, HTTP_400_BAD_REQUEST, errs)

product_create(store, nid, data) ==
  LET ser == ProductCreateSerializer
      errs == errors(ser, store, 0, data, FALSE)
      obj == create(validated_data(ser, data))
  IN IF errs = Empty
     THEN Response(save(store, nid, obj), nid + 1, HTTP_201_CREATED,
                   to_representation(ser, nid, obj))
     ELSE Response(store, nid, HTTP_400_BAD_REQUEST, errs)

\* product_update that validates the body before it looks the row up.
product_update_ValidateFirst(store, nid, pk, data) ==
  LET ser == ProductCreateSerializer
      errs == errors(ser, store, pk, data, FALSE)
      obj == update(store[pk], validated_data(ser, data))
  IN IF errs # Empty THEN Response(store, nid, HTTP_400_BAD_REQUEST, errs)
     ELSE IF pk \notin DOMAIN store THEN NotFound(store, nid)
     ELSE Response(save(store, pk, obj), nid, HTTP_200_OK,
                   to_representation(ser, pk, obj))

\* product_update that builds the row anew from the validated fields.
product_update_Rebuild(store, nid, pk, data) ==
  LET ser == ProductCreateSerializer
      errs == errors(ser, store, pk, data, FALSE)
      obj == create(validated_data(ser, data))
  IN IF pk \notin DOMAIN store THEN NotFound(store, nid)
     ELSE IF errs = Empty
     THEN Response(save(store, pk, obj), nid, HTTP_200_OK,
                   to_representation(ser, pk, obj))
     ELSE Response(store, nid, HTTP_400_BAD_REQUEST, errs)

product_update(store, nid, pk, data) ==
  LET ser == ProductCreateSerializer
      errs == errors(ser, store, pk, data, FALSE)
      obj == update(store[pk], validated_data(ser, data))
  IN IF pk \notin DOMAIN store THEN NotFound(store, nid)
     ELSE IF errs = Empty
     THEN Response(save(store, pk, obj), nid, HTTP_200_OK,
                   to_representation(ser, pk, obj))
     ELSE Response(store, nid, HTTP_400_BAD_REQUEST, errs)

\* product_partial_update that builds the row anew from the validated fields.
product_partial_update_Rebuild(store, nid, pk, data) ==
  LET ser == ProductCreateSerializer
      errs == errors(ser, store, pk, data, TRUE)
      obj == create(validated_data(ser, data))
  IN IF pk \notin DOMAIN store THEN NotFound(store, nid)
     ELSE IF errs = Empty
     THEN Response(save(store, pk, obj), nid, HTTP_200_OK,
                   to_representation(ser, pk, obj))
     ELSE Response(store, nid, HTTP_400_BAD_REQUEST, errs)

product_partial_update(store, nid, pk, data) ==
  LET ser == ProductCreateSerializer
      errs == errors(ser, store, pk, data, TRUE)
      obj == update(store[pk], validated_data(ser, data))
  IN IF pk \notin DOMAIN store THEN NotFound(store, nid)
     ELSE IF errs = Empty
     THEN Response(save(store, pk, obj), nid, HTTP_200_OK,
                   to_representation(ser, pk, obj))
     ELSE Response(store, nid, HTTP_400_BAD_REQUEST, errs)

product_delete(store, nid, pk) ==
  IF pk \notin DOMAIN store THEN NotFound(store, nid)
  ELSE Response(delete(store, pk), nid, HTTP_204_NO_CONTENT, Empty)

(* ------------------ product/api_views.py: ProductView ------------------ *)

\* ProductView.get with pk None
ProductView_get_list(store, nid) ==
  Response(store, nid, HTTP_200_OK,
           [items |-> {to_representation(ProductListSerializer, i, store[i]) :
                         i \in DOMAIN store}])

\* ProductView.get answering a detail fetch with the list serializer.
ProductView_get_ListFields(store, nid, pk) ==
  IF pk \notin DOMAIN store THEN NotFound(store, nid)
  ELSE Response(store, nid, HTTP_200_OK,
                to_representation(ProductListSerializer, pk, store[pk]))

\* ProductView.get with a pk
ProductView_get(store, nid, pk) ==
  IF pk \notin DOMAIN store THEN NotFound(store, nid)
  ELSE Response(store, nid, HTTP_200_OK,
                to_representation(ProductDetailSerializer, pk, store[pk]))

\* ProductView.post that saves without the uniqueness check.
ProductView_post_NoUniqueCheck(store, nid, data) ==
  LET ser == ProductCreateSerializer
      errs == errors(ser, Empty, 0, data, FALSE)
      obj == create(validated_data(ser, data))
  IN IF errs = Empty
     THEN Response(save(store, nid, obj), nid + 1, HTTP_201_CREATED,
                   to_representation(ser, nid, obj))
     ELSE Response(store, nid, HTTP_400_BAD_REQUEST, errs)

\* ProductView.post with the new id the lowest one no stored row has.
ProductView_post_LowestFreeId(store, nid, data) ==
  LET ser == ProductCreateSerializer
      errs == errors(ser, store, 0, data, FALSE)
      obj == create(validated_data(ser, data))
      id == CHOOSE i \in 1..nid : i \notin DOMAIN store /\ \A j \in 1..(i - 1) : j \in DOMAIN store
  IN IF errs = Empty
     THEN Response(save(store, id, obj), nid + 1, HTTP_201_CREATED,
                   to_representation(ser, id, obj))
     ELSE Response(store, nid, HTTP_400_BAD_REQUEST, errs)

ProductView_post(store, nid, data) ==
  LET ser == ProductCreateSerializer
      errs == errors(ser, store, 0, data, FALSE)
      obj == create(validated_data(ser, data))
  IN IF errs = Empty
     THEN Response(save(store, nid, obj), nid + 1, HTTP_201_CREATED,
                   to_representation(ser, nid, obj))
     ELSE Response(store, nid, HTTP_400_BAD_REQUEST, errs)

\* ProductView.put whose uniqueness check does not leave out the row itself.
ProductView_put_UniqueAgainstSelf(store, nid, pk, data) ==
  LET ser == ProductDetailSerializer
      errs == errors(ser, store, 0, data, FALSE)
      obj == update(store[pk], validated_data(ser, data))
  IN IF pk \notin DOMAIN store THEN NotFound(store, nid)
     ELSE IF errs = Empty
     THEN Response(save(store, pk, obj), nid, HTTP_200_OK,
                   to_representation(ser, pk, obj))
     ELSE Response(store, nid, HTTP_400_BAD_REQUEST, errs)

ProductView_put(store, nid, pk, data) ==
  LET ser == ProductDetailSerializer
      errs == errors(ser, store, pk, data, FALSE)
      obj == update(store[pk], validated_data(ser, data))
  IN IF pk \notin DOMAIN store THEN NotFound(store, nid)
     ELSE IF errs = Empty
     THEN Response(save(store, pk, obj), nid, HTTP_200_OK,
                   to_representation(ser, pk, obj))
     ELSE Response(store, nid, HTTP_400_BAD_REQUEST, errs)

\* ProductView.patch that saves whatever is_valid() says.
ProductView_patch_SaveUnchecked(store, nid, pk, data) ==
  LET ser == ProductDetailSerializer
      obj == update(store[pk], validated_data(ser, data))
  IN IF pk \notin DOMAIN store THEN NotFound(store, nid)
     ELSE Response(save(store, pk, obj), nid, HTTP_200_OK,
                   to_representation(ser, pk, obj))

ProductView_patch(store, nid, pk, data) ==
  LET ser == ProductDetailSerializer
      errs == errors(ser, store, pk, data, TRUE)
      obj == update(store[pk], validated_data(ser, data))
  IN IF pk \notin DOMAIN store THEN NotFound(store, nid)
     ELSE IF errs = Empty
     THEN Response(save(store, pk, obj), nid, HTTP_200_OK,
                   to_representation(ser, pk, obj))
     ELSE Response(store, nid, HTTP_400_BAD_REQUEST, errs)

ProductView_delete(store, nid, pk) ==
  IF pk \notin DOMAIN store THEN NotFound(store, nid)
  ELSE Response(delete(store, pk), nid, HTTP_204_NO_CONTENT, Empty)

(* ------------------------------ the machine ---------------------------- *)

\* A table with one row that an administrator gave a description and a
\* category (neither can be set through the create endpoints).
SeedStore ==
  1 :> [slug |-> "a", title |-> "t1", description |-> "d1", price |-> 1,
        categories |-> {1}]

\* No request is being served.
Idle ==
  [op |-> "none", path |-> "none", pk |-> 0, data |-> Empty,
   status |-> 0, body |-> Empty]

Init ==
  /\ \/ products = Empty /\ nextId = 1
     \/ products = SeedStore /\ nextId = 2
  /\ deleted = {}
  /\ last = Idle
  /\ inflight = Empty
  /\ start = Empty

\* One request served from start to finish: r is the handler's result on the
\* current table. A worker serves one request at a time.
Serve(op, path, pk, data, r) ==
  /\ last = Idle
  /\ products' = r.products
  /\ nextId' = r.nextId
  /\ deleted' = deleted \cup (DOMAIN products \ DOMAIN r.products)
  /\ last' = [op |-> op, path |-> path, pk |-> pk, data |-> data,
              status |-> r.status, body |-> r.body]
  /\ UNCHANGED <<inflight, start>>

ProductList == Serve("list", "fn", 0, Empty, product_list(products, nextId))

ProductDetail ==
  \E pk \in Ids : Serve("detail", "fn", pk, Empty, product_detail(products, nextId, pk))

ProductCreate ==
  /\ nextId <= MaxId
  /\ \E data \in Data :
       Serve("create", "fn", 0, data, product_create(products, nextId, data))

ProductUpdate ==
  \E pk \in Ids, data \in Data :
    Serve("put", "fn", pk, data, product_update(products, nextId, pk, data))

ProductPartialUpdate ==
  \E pk \in Ids, data \in Data :
    Serve("patch", "fn", pk, data, product_partial_update(products, nextId, pk, data))

ProductDelete ==
  \E pk \in Ids : Serve("delete", "fn", pk, Empty, product_delete(products, nextId, pk))

ViewGetList == Serve("list", "cls", 0, Empty, ProductView_get_list(products, nextId))

ViewGet ==
  \E pk \in Ids : Serve("detail", "cls", pk, Empty, ProductView_get(products, nextId, pk))

ViewPost ==
  /\ nextId <= MaxId
  /\ \E data \in Data :
       Serve("create", "cls", 0, data, ProductView_post(products, nextId, data))

ViewPut ==
  \E pk \in Ids, data \in Data :
    Serve("put", "cls", pk, data, ProductView_put(products, nextId, pk, data))

ViewPatch ==
  \E pk \in Ids, data \in Data :
    Serve("patch", "cls", pk, data, ProductView_patch(products, nextId, pk, data))

ViewDelete ==
  \E pk \in Ids : Serve("delete", "cls", pk, Empty, ProductView_delete(products, nextId, pk))

\* The response has gone back to the client; the next request is routed.
Respond ==
  /\ last # Idle
  /\ last' = Idle
  /\ UNCHANGED <<products, nextId, deleted, inflight, start>>

Next ==
  \/ Respond
  \/ ProductList
  \/ ProductDetail
  \/ ProductCreate
  \/ ProductUpdate
  \/ ProductPartialUpdate
  \/ ProductDelete
  \/ ViewGetList
  \/ ViewGet
  \/ ViewPost
  \/ ViewPut
  \/ ViewPatch
  \/ ViewDelete

Spec == Init /\ [][Next]_vars

(* ------------------- two requests served concurrently ------------------ *)

Workers == {1, 2}

\* The row both requests address: the seeded one.
ConcPk == CHOOSE i \in DOMAIN SeedStore : TRUE

\* Request bodies that change the seeded row: each field absent or new.
ConcData ==
  {b @@ c @@ d @@ e :
     b \in Part("slug", {"b"}), c \in Part("title", {"t2"}),
     d \in Part("price", {2}), e \in Part("description", {"d2"})}

ConcRequests ==
  [op : {"put", "patch"}, path : {"fn", "cls"}, pk : {ConcPk}, data : ConcData]
    \cup [op : {"delete"}, path : {"fn", "cls"}, pk : {ConcPk}, data : {Empty}]

\* The serializer class a handler instantiates for a write.
SerializerOf(req) ==
  IF req.path = "fn" THEN ProductCreateSerializer ELSE ProductDetailSerializer

\* The handler a request is routed to, run from start to finish.
Handle(req, store, nid) ==
  CASE req.op = "put" /\ req.path = "fn" -> product_update(store, nid, req.pk, req.data)
    [] req.op = "put" /\ req.path = "cls" -> ProductView_put(store, nid, req.pk, req.data)
    [] req.op = "patch" /\ req.path = "fn" ->
         product_partial_update(store, nid, req.pk, req.data)
    [] req.op = "patch" /\ req.path = "cls" -> ProductView_patch(store, nid, req.pk, req.data)
    [] req.op = "delete" /\ req.path = "fn" -> product_delete(store, nid, req.pk)
    [] req.op = "delete" /\ req.path = "cls" -> ProductView_delete(store, nid, req.pk)

InitConc ==
  /\ products = SeedStore
  /\ nextId = 2
  /\ deleted = {}
  /\ last = Idle
  /\ start = products
  /\ inflight \in [Workers -> [req : ConcRequests, pc : {"load"}, obj : {Empty},
                                status : {0}, body : {Empty}]]

Finish(w, status, body) ==
  inflight' = [inflight EXCEPT ![w].pc = "done", ![w].status = status, ![w].body = body]

\* obj = get_object_or_404(Product, pk=pk)
Load(w) ==
  LET r == inflight[w] IN
  /\ r.pc = "load"
  /\ IF r.req.pk \notin DOMAIN products
     THEN Finish(w, HTTP_404_NOT_FOUND, [detail |-> "Not found."])
     ELSE inflight' = [inflight EXCEPT
            ![w].pc = IF r.req.op = "delete" THEN "delete" ELSE "validate",
            ![w].obj = products[r.req.pk]]
  /\ UNCHANGED <<products, nextId, deleted, last, start>>

\* serializer = Serializer(obj, data=request.data[, partial=True]); is_valid()
Validate(w) ==
  LET r == inflight[w]
      ser == SerializerOf(r.req)
      errs == errors(ser, products, r.req.pk, r.req.data, r.req.op = "patch")
  IN
  /\ r.pc = "validate"
  /\ IF errs = Empty
     THEN inflight' = [inflight EXCEPT ![w].pc = "save"]
     ELSE Finish(w, HTTP_400_BAD_REQUEST, errs)
  /\ UNCHANGED <<products, nextId, deleted, last, start>>

\* serializer.save(); return Response(serializer.data)
\* (No other row changes while the two requests run, so the slug that passed
\* validation cannot collide when the row is written.)
Save(w) ==
  LET r == inflight[w]
      ser == SerializerOf(r.req)
      obj == update(r.obj, validated_data(ser, r.req.data))
  IN
  /\ r.pc = "save"
  /\ products' = save(products, r.req.pk, obj)
  /\ Finish(w, HTTP_200_OK, to_representation(ser, r.req.pk, products'[r.req.pk]))
  /\ UNCHANGED <<nextId, deleted, last, start>>

\* obj.delete(); return Response(status=204)
Delete(w) ==
  LET r == inflight[w] IN
  /\ r.pc = "delete"
  /\ products' = delete(products, r.req.pk)
  /\ deleted' = deleted \cup (DOMAIN products \ DOMAIN products')
  /\ Finish(w, HTTP_204_NO_CONTENT, Empty)
  /\ UNCHANGED <<nextId, last, start>>

NextConc ==
  \/ \E w \in Workers : Load(w)
  \/ \E w \in Workers : Validate(w)
  \/ \E w \in Workers : Save(w)
  \/ \E w \in Workers : Delete(w)

SpecConc == InitConc /\ [][NextConc]_vars

(* ------------------------------- claims -------------------------------- *)

\* A handler has just served a request of one of these kinds.
Served(ops) == last = Idle /\ last'.op \in ops

SlugTaken(store, slug, except) ==
  \E i \in DOMAIN store \ {except} : store[i].slug = slug

\* C1: on both create endpoints, a create request with an unused slug, a
\* title and a price returns 201 with a body of exactly those three values
\* and a generated id no product has or ever had, and the table gains exactly
\* that row while every other row is unchanged.
C1_CreateReturns201AndAddsOneRow ==
  [][ ( /\ Served({"create"})
        /\ {"slug", "title", "price"} \subseteq DOMAIN last'.data
        /\ ~SlugTaken(products, last'.data.slug, 0) )
      => ( /\ last'.status = HTTP_201_CREATED
           /\ DOMAIN last'.body = {"id", "slug", "title", "price"}
           /\ \A f \in {"slug", "title", "price"} : last'.body[f] = last'.data[f]
           /\ last'.body.id \notin DOMAIN products \cup deleted
           /\ DOMAIN products' = DOMAIN products \cup {last'.body.id}
           /\ \A f \in {"slug", "title", "price"} :
                products'[last'.body.id][f] = last'.data[f]
           /\ \A i \in DOMAIN products : products'[i] = products[i] )
    ]_vars

C1_Witness ==
  /\ last.op = "create"
  /\ last.status = HTTP_201_CREATED
  /\ last.body.id \in DOMAIN products
  /\ Cardinality(DOMAIN products) = 2

\* C2: on both create endpoints, a create request whose slug is the slug of a
\* stored product returns 400 and leaves the table as it was.
C2_DuplicateSlugCreateRejected ==
  [][ ( /\ Served({"create"})
        /\ "slug" \in DOMAIN last'.data
        /\ SlugTaken(products, last'.data.slug, 0) )
      => ( /\ last'.status = HTTP_400_BAD_REQUEST
           /\ "slug" \in DOMAIN last'.body
           /\ products' = products
           /\ nextId' = nextId )
    ]_vars

C2_Witness ==
  /\ last.op = "create"
  /\ last.status = HTTP_400_BAD_REQUEST
  /\ {"slug", "title", "price"} \subseteq DOMAIN last.data
  /\ SlugTaken(products, last.data.slug, 0)
  /\ DOMAIN last.body = {"slug"}

\* C3: whatever mix of create, PUT, PATCH and delete requests was served on
\* either path, no two stored products have the same slug; a PUT or PATCH that
\* would give a product the slug of another stored product is rejected and
\* changes nothing.
SlugUnique ==
  \A i, j \in DOMAIN products : i # j => products[i].slug # products[j].slug

C3_SlugStaysUnique ==
  /\ []SlugUnique
  /\ [][ ( /\ Served({"put", "patch"})
           /\ last'.pk \in DOMAIN products
           /\ "slug" \in DOMAIN last'.data
           /\ SlugTaken(products, last'.data.slug, last'.pk) )
         => ( /\ last'.status = HTTP_400_BAD_REQUEST
              /\ products' = products )
       ]_vars

C3_Witness ==
  /\ last.op \in {"put", "patch"}
  /\ last.pk \in DOMAIN products
  /\ "slug" \in DOMAIN last.data
  /\ SlugTaken(products, last.data.slug, last.pk)
  /\ last.status = HTTP_400_BAD_REQUEST
  /\ {"title", "price", "description"} \subseteq DOMAIN last.data

\* C4: detail GET, PUT, PATCH and DELETE, on either path, called with an id
\* that resolves to no stored product return 404 (not a validation error,
\* whatever the body), and leave the table unchanged.
C4_MissingIdIs404 ==
  [][ ( /\ Served({"detail", "put", "patch", "delete"})
        /\ last'.pk \notin DOMAIN products )
      => ( /\ last'.status = HTTP_404_NOT_FOUND
           /\ last'.body = [detail |-> "Not found."]
           /\ products' = products
           /\ nextId' = nextId
           /\ deleted' = deleted )
    ]_vars

C4_Witness ==
  /\ last.op = "put"
  /\ last.pk \notin DOMAIN products
  /\ products # Empty
  /\ last.data = Empty
  /\ last.status = HTTP_404_NOT_FOUND

\* C5: deleting an existing product on either path returns 204 with an empty
\* body and removes exactly that row; from then on a detail fetch of that id
\* returns 404, and no later create makes that id resolve again.
C5_DeletedStaysGone ==
  /\ [](\A i \in deleted :
          /\ i \notin DOMAIN products
          /\ (last.op = "detail" /\ last.pk = i) => last.status = HTTP_404_NOT_FOUND)
  /\ [][ ( /\ Served({"delete"})
           /\ last'.pk \in DOMAIN products )
         => ( /\ last'.status = HTTP_204_NO_CONTENT
              /\ last'.body = Empty
              /\ DOMAIN products' = DOMAIN products \ {last'.pk}
              /\ \A i \in DOMAIN products' : products'[i] = products[i]
              /\ last'.pk \in deleted' )
       ]_vars

C5_Witness ==
  /\ last.op = "detail"
  /\ last.pk \in deleted
  /\ last.status = HTTP_404_NOT_FOUND
  /\ \E i \in DOMAIN products : i > last.pk

\* The detail fetch and the repeated PUT that follow a PUT on the same path.
DetailOn(path, store, nid, pk) ==
  IF path = "fn" THEN product_detail(store, nid, pk)
  ELSE ProductView_get(store, nid, pk)

PutOn(path, store, nid, pk, data) ==
  IF path = "fn" THEN product_update(store, nid, pk, data)
  ELSE ProductView_put(store, nid, pk, data)

\* What follows a PUT that returned 200: the detail fetch issued right after
\* it shows the fields in `shown` as supplied, and the same PUT applied again
\* succeeds and leaves the table as the first one left it.
PutThenFetch(shown) ==
  LET fetch == DetailOn(last'.path, products', nextId', last'.pk)
      again == PutOn(last'.path, products', nextId', last'.pk, last'.data)
  IN /\ fetch.status = HTTP_200_OK
     /\ \A f \in shown : fetch.body[f] = last'.data[f]
     /\ again.status = HTTP_200_OK
     /\ again.products = products'

\* C6 as stated: a valid PUT returns 200, the detail fetch right after it
\* returns every field the PUT supplied with the supplied value, and the same
\* PUT applied again succeeds and leaves the stored state unchanged.
C6_Original_EverySuppliedFieldShown ==
  [][ (Served({"put"}) /\ last'.status = HTTP_200_OK)
      => PutThenFetch(DOMAIN last'.data) ]_vars

\* C6 amended: the same, for every supplied field that the handler's
\* serializer writes (slug, title, price; on ProductView also description).
C6_PutShownAndIdempotent ==
  [][ (Served({"put"}) /\ last'.status = HTTP_200_OK)
      => PutThenFetch(DOMAIN last'.data \cap Writable(SerializerOf(last')))
    ]_vars

C6_Witness ==
  /\ last.op = "put"
  /\ last.status = HTTP_200_OK
  /\ Cardinality(DOMAIN products) = 2
  /\ products[last.pk].slug = last.data.slug
  /\ products[last.pk].title = "t2"
  /\ products[last.pk].price = 2

\* A PUT on the function path that carries a free slug, a title and a price
\* for a stored product.
FnPutAccepted ==
  /\ Served({"put"})
  /\ last'.path = "fn"
  /\ last'.pk \in DOMAIN products
  /\ {"slug", "title", "price"} \subseteq DOMAIN last'.data
  /\ ~SlugTaken(products, last'.data.slug, last'.pk)

\* C7 as stated: a PUT on the function path is accepted without a
\* description, and the stored description after it is not the one the
\* product had before.
C7_Original_DescriptionDropped ==
  [][ (FnPutAccepted /\ "description" \notin DOMAIN last'.data)
      => ( /\ last'.status = HTTP_200_OK
           /\ products'[last'.pk].description # products[last'.pk].description )
    ]_vars

\* C7 amended: a PUT on the function path neither requires nor writes the
\* description: it is accepted without one, a supplied one is ignored, and the
\* stored description after the update is the one the product had before.
C7_DescriptionKept ==
  [][ FnPutAccepted
      => ( /\ last'.status = HTTP_200_OK
           /\ "description" \notin DOMAIN last'.body
           /\ products'[last'.pk].description = products[last'.pk].description )
    ]_vars

C7_Witness ==
  /\ last.op = "put"
  /\ last.path = "fn"
  /\ last.status = HTTP_200_OK
  /\ "description" \notin DOMAIN last.data
  /\ products[last.pk].description = "d1"
  /\ products[last.pk].title = "t2"

\* C8: a successful PATCH on either path overwrites only writable fields that
\* the request carries: every other field of that product (its id and its
\* categories too) and every other product keep their values, and a PATCH
\* with an empty body changes nothing.
C8_PatchTouchesOnlySuppliedFields ==
  [][ (Served({"patch"}) /\ last'.status = HTTP_200_OK)
      => ( /\ DOMAIN products' = DOMAIN products
           /\ nextId' = nextId
           /\ last'.pk \in DOMAIN products
           /\ last'.body.id = last'.pk
           /\ \A i \in DOMAIN products \ {last'.pk} : products'[i] = products[i]
           /\ \A f \in ProductColumns :
                (f \notin DOMAIN last'.data \cap Writable(SerializerOf(last')))
                  => products'[last'.pk][f] = products[last'.pk][f]
           /\ (last'.data = Empty => products' = products) )
    ]_vars

C8_Witness ==
  /\ last.op = "patch"
  /\ last.status = HTTP_200_OK
  /\ DOMAIN last.data = {"title"}
  /\ products[last.pk].title = "t2"
  /\ products[last.pk].description = "d1"
  /\ products[last.pk].categories # {}
  /\ Cardinality(DOMAIN products) = 2

\* The handler of the other path for the request just served, run on the
\* table the request was served from.
OtherPath ==
  LET r == last' IN
  CASE r.op = "list" /\ r.path = "fn" -> ProductView_get_list(products, nextId)
    [] r.op = "list" /\ r.path = "cls" -> product_list(products, nextId)
    [] r.op = "detail" /\ r.path = "fn" -> ProductView_get(products, nextId, r.pk)
    [] r.op = "detail" /\ r.path = "cls" -> product_detail(products, nextId, r.pk)
    [] r.op = "create" /\ r.path = "fn" -> ProductView_post(products, nextId, r.data)
    [] r.op = "create" /\ r.path = "cls" -> product_create(products, nextId, r.data)
    [] r.op = "delete" /\ r.path = "fn" -> ProductView_delete(products, nextId, r.pk)
    [] r.op = "delete" /\ r.path = "cls" -> product_delete(products, nextId, r.pk)
    [] r.op = "put" /\ r.path = "fn" -> ProductView_put(products, nextId, r.pk, r.data)
    [] r.op = "put" /\ r.path = "cls" -> product_update(products, nextId, r.pk, r.data)
    [] r.op = "patch" /\ r.path = "fn" ->
         ProductView_patch(products, nextId, r.pk, r.data)
    [] r.op = "patch" /\ r.path = "cls" ->
         product_partial_update(products, nextId, r.pk, r.data)

\* C9: for list, detail, create and delete the function-based handler and
\* ProductView give, from the same table and request, the same status, the
\* same body and the same table. For PUT and PATCH they part only over the
\* fields the two serializers take: a PATCH that carries no description gets
\* the same status and leaves the same table on both paths.
C9_PathsAgree ==
  [][ /\ Served({"list", "detail", "create", "delete"})
         => ( /\ OtherPath.status = last'.status
              /\ OtherPath.body = last'.body
              /\ OtherPath.products = products'
              /\ OtherPath.nextId = nextId' )
      /\ (Served({"patch"}) /\ "description" \notin DOMAIN last'.data)
         => ( /\ OtherPath.status = last'.status
              /\ OtherPath.products = products' )
    ]_vars

C9_Witness ==
  /\ last.op = "detail"
  /\ last.path = "cls"
  /\ last.status = HTTP_200_OK
  /\ last.body.categories # {}
  /\ deleted # {}

\* Both concurrent requests have been answered.
AllDone == \A w \in Workers : inflight[w].pc = "done"

\* The table and the two responses that serving first w1's request and then
\* w2's, one after the other, gives.
SerialOutcome(w1, w2) ==
  LET r1 == Handle(inflight[w1].req, start, nextId)
      r2 == Handle(inflight[w2].req, r1.products, nextId)
  IN /\ products = r2.products
     /\ inflight[w1].status = r1.status /\ inflight[w1].body = r1.body
     /\ inflight[w2].status = r2.status /\ inflight[w2].body = r2.body

\* C10: two requests on the same product id (PUT, PATCH or DELETE) that run
\* concurrently end with the table and the two responses of one of the two
\* serial orders.
C10_ConcurrentRequestsSerializable ==
  AllDone => (SerialOutcome(1, 2) \/ SerialOutcome(2, 1))

====
